---- MODULE Spec2Model ----
(***************************************************************************)
(* Model of shor2.py: a Streamlit script that derives a toy RSA key pair   *)
(* (lines 23-27), draws and encrypts a session key (lines 29-30) and, in a *)
(* script run in which the "Run Shor's Algorithm" button reports a click,  *)
(* recovers the session key from the already-known factors (137-145).      *)
(*                                                                         *)
(* Streamlit executes the whole script top to bottom in a fresh namespace  *)
(* on first load and again on every widget interaction; a rerun request    *)
(* takes effect at the next st.* call of a running script.                 *)
(***************************************************************************)
EXTENDS Integers, Sequences, FiniteSets, TLC

VARIABLES pc, button, error,
          p, q, n, phi, e, d,
          session_key, encrypted_key,
          p_found, q_found, d_eve, recovered_key,
          metrics, prev

vars == <<pc, button, error, p, q, n, phi, e, d, session_key, encrypted_key,
          p_found, q_found, d_eve, recovered_key, metrics, prev>>

(* Bounds of the pure-function specifications. *)
MaxPrime == 23
MaxE == 7
MaxMod == 24
MaxExp == 9

(* A name the current script run has not assigned yet. *)
Unbound == -1

---------------------------------------------------------------------------
(* Python's built-in pow(base, exp, mod) as CPython computes it.           *)

(* Mutant of InvModLoop: the coefficient update adds instead of subtracts. *)
RECURSIVE InvModLoopSignSlip(_, _, _, _)
InvModLoopSignSlip(a, m, b, c) ==
    IF m = 0 THEN [a |-> a, b |-> b]
    ELSE InvModLoopSignSlip(m, a % m, c, b + (a \div m) * c)

(* long_invmod: the extended Euclidean loop; a is the gcd at exit and b    *)
(* the Bezout coefficient of the original a.                               *)
RECURSIVE InvModLoop(_, _, _, _)
InvModLoop(a, m, b, c) ==
    IF m = 0 THEN [a |-> a, b |-> b]
    ELSE InvModLoop(m, a % m, c, b - (a \div m) * c)

(* Mutant of BinPow: on a set bit the multiplication is done before the    *)
(* squaring instead of after it.                                           *)
RECURSIVE BinPowMulFirst(_, _, _)
BinPowMulFirst(a, b, c) ==
    IF b = 0 THEN 1 % c
    ELSE LET h == BinPowMulFirst(a, b \div 2, c)
         IN  IF b % 2 = 1
             THEN (((h * a) % c) * ((h * a) % c)) % c
             ELSE (h * h) % c

(* Left-to-right binary exponentiation, every product reduced mod c.       *)
RECURSIVE BinPow(_, _, _)
BinPow(a, b, c) ==
    IF b = 0 THEN 1 % c
    ELSE LET h == BinPow(a, b \div 2, c)
             s == (h * h) % c
         IN  IF b % 2 = 1 THEN (s * a) % c ELSE s

(* Mutant of pow: the gcd is not checked, so a non-invertible base yields  *)
(* the last Bezout coefficient instead of ValueError.                      *)
powUnchecked(base, exp, mod) ==
    IF exp < 0
    THEN LET r == InvModLoop(base, mod, 1, 0)
         IN  [raised |-> "", value |-> BinPow(r.b % mod, -exp, mod)]
    ELSE [raised |-> "", value |-> BinPow(base % mod, exp, mod)]

(* Mutant of pow: the exponent's last bit is dropped (exp // 2 * 2).       *)
powEvenExp(base, exp, mod) ==
    IF exp < 0
    THEN LET r == InvModLoop(base, mod, 1, 0)
         IN  IF r.a # 1
             THEN [raised |-> "ValueError", value |-> Unbound]
             ELSE [raised |-> "", value |-> BinPow(r.b % mod, -exp, mod)]
    ELSE [raised |-> "", value |-> BinPow(base % mod, (exp \div 2) * 2, mod)]

(* pow with three arguments: a negative exponent first inverts the base    *)
(* mod `mod` (ValueError when it is not invertible), then the base is      *)
(* reduced into [0, mod) and raised to |exp|.                              *)
pow(base, exp, mod) ==
    IF exp < 0
    THEN LET r == InvModLoop(base, mod, 1, 0)
         IN  IF r.a # 1
             THEN [raised |-> "ValueError", value |-> Unbound]
             ELSE [raised |-> "", value |-> BinPow(r.b % mod, -exp, mod)]
    ELSE [raised |-> "", value |-> BinPow(base % mod, exp, mod)]

---------------------------------------------------------------------------
NoRun == [session_key |-> Unbound, encrypted_key |-> Unbound,
          d_eve |-> Unbound, recovered_key |-> Unbound]

(* First load of the page: nothing assigned, the button not clicked.       *)
Init ==
    /\ pc = "setup"
    /\ button = FALSE
    /\ error = ""
    /\ p = Unbound /\ q = Unbound /\ n = Unbound /\ phi = Unbound
    /\ e = Unbound /\ d = Unbound
    /\ session_key = Unbound /\ encrypted_key = Unbound
    /\ p_found = Unbound /\ q_found = Unbound
    /\ d_eve = Unbound /\ recovered_key = Unbound
    /\ metrics = <<>>
    /\ prev = NoRun

(* Mutant of RSASetup: phi is computed as p*q - p - q, the + 1 forgotten.  *)
RSASetupWrongPhi(pp, qq, ee) ==
    /\ pc = "setup"
    /\ p' = pp /\ q' = qq
    /\ n' = pp * qq
    /\ phi' = pp * qq - pp - qq
    /\ e' = ee
    /\ LET r == pow(ee, -1, pp * qq - pp - qq)
       IN  IF r.raised = ""
           THEN d' = r.value /\ error' = "" /\ pc' = "keygen"
           ELSE d' = d /\ error' = r.raised /\ pc' = "crashed"
    /\ UNCHANGED <<button, session_key, encrypted_key, p_found, q_found,
                   d_eve, recovered_key, metrics, prev>>

(* Lines 23-27 with the literals as parameters.  An exception raised by    *)
(* line 27 ends the script run with d unassigned.                          *)
RSASetup(pp, qq, ee) ==
    /\ pc = "setup"
    /\ p' = pp /\ q' = qq
    /\ n' = pp * qq
    /\ phi' = (pp - 1) * (qq - 1)
    /\ e' = ee
    /\ LET r == pow(ee, -1, (pp - 1) * (qq - 1))
       IN  IF r.raised = ""
           THEN d' = r.value /\ error' = "" /\ pc' = "keygen"
           ELSE d' = d /\ error' = r.raised /\ pc' = "crashed"
    /\ UNCHANGED <<button, session_key, encrypted_key, p_found, q_found,
                   d_eve, recovered_key, metrics, prev>>

(* Mutant of DrawSessionKey: the range is one too wide at the top.         *)
DrawSessionKeyWide(lo, hi) ==
    /\ pc = "keygen"
    /\ \E k \in lo..(hi + 1) : session_key' = k
    /\ pc' = "encrypt"
    /\ UNCHANGED <<button, error, p, q, n, phi, e, d, encrypted_key,
                   p_found, q_found, d_eve, recovered_key, metrics, prev>>

(* Line 29: random.randint(lo, hi), both ends included.                    *)
DrawSessionKey(lo, hi) ==
    /\ pc = "keygen"
    /\ \E k \in lo..hi : session_key' = k
    /\ pc' = "encrypt"
    /\ UNCHANGED <<button, error, p, q, n, phi, e, d, encrypted_key,
                   p_found, q_found, d_eve, recovered_key, metrics, prev>>

(* Line 30. *)
Encrypt ==
    /\ pc = "encrypt"
    /\ encrypted_key' = pow(session_key, e, n).value
    /\ pc' = "button"
    /\ UNCHANGED <<button, error, p, q, n, phi, e, d, session_key,
                   p_found, q_found, d_eve, recovered_key, metrics, prev>>

(* Mutant of Button: the handler body runs whatever the button returned.   *)
ButtonIgnored ==
    /\ pc = "button"
    /\ pc' = "attack138"
    /\ UNCHANGED <<button, error, p, q, n, phi, e, d, session_key,
                   encrypted_key, p_found, q_found, d_eve, recovered_key,
                   metrics, prev>>

(* Line 137: st.button returns True only in the run its click started.   *)
Button ==
    /\ pc = "button"
    /\ pc' = IF button THEN "attack138" ELSE "done"
    /\ UNCHANGED <<button, error, p, q, n, phi, e, d, session_key,
                   encrypted_key, p_found, q_found, d_eve, recovered_key,
                   metrics, prev>>

(* Line 138. *)
Attack138 ==
    /\ pc = "attack138"
    /\ p_found' = p /\ q_found' = q
    /\ pc' = "attack139"
    /\ UNCHANGED <<button, error, p, q, n, phi, e, d, session_key,
                   encrypted_key, d_eve, recovered_key, metrics, prev>>

(* Mutant of Attack139: the inverse is taken mod n instead of mod phi.     *)
Attack139ModN ==
    /\ pc = "attack139"
    /\ LET r == pow(e, -1, p_found * q_found)
       IN  IF r.raised = ""
           THEN d_eve' = r.value /\ error' = "" /\ pc' = "attack140"
           ELSE d_eve' = d_eve /\ error' = r.raised /\ pc' = "crashed"
    /\ UNCHANGED <<button, p, q, n, phi, e, d, session_key, encrypted_key,
                   p_found, q_found, recovered_key, metrics, prev>>

(* Line 139. *)
Attack139 ==
    /\ pc = "attack139"
    /\ LET r == pow(e, -1, (p_found - 1) * (q_found - 1))
       IN  IF r.raised = ""
           THEN d_eve' = r.value /\ error' = "" /\ pc' = "attack140"
           ELSE d_eve' = d_eve /\ error' = r.raised /\ pc' = "crashed"
    /\ UNCHANGED <<button, p, q, n, phi, e, d, session_key, encrypted_key,
                   p_found, q_found, recovered_key, metrics, prev>>

(* Mutant of Attack140: the recovered key is a fresh random draw rather    *)
(* than a function of the cipher and d_eve.                                *)
Attack140Random ==
    /\ pc = "attack140"
    /\ \E k \in 20..80 : recovered_key' = k
    /\ pc' = "show"
    /\ UNCHANGED <<button, error, p, q, n, phi, e, d, session_key,
                   encrypted_key, p_found, q_found, d_eve, metrics, prev>>

(* Mutant of Attack140: the decryption overwrites the cipher in place.     *)
Attack140InPlace ==
    /\ pc = "attack140"
    /\ encrypted_key' = pow(encrypted_key, d_eve, n).value
    /\ recovered_key' = encrypted_key'
    /\ pc' = "show"
    /\ UNCHANGED <<button, error, p, q, n, phi, e, d, session_key,
                   p_found, q_found, d_eve, metrics, prev>>

(* Line 140. *)
Attack140 ==
    /\ pc = "attack140"
    /\ recovered_key' = pow(encrypted_key, d_eve, n).value
    /\ pc' = "show"
    /\ UNCHANGED <<button, error, p, q, n, phi, e, d, session_key,
                   encrypted_key, p_found, q_found, d_eve, metrics, prev>>

(* Lines 142-145: the three metrics this run emits. *)
Show ==
    /\ pc = "show"
    /\ metrics' = <<p_found, q_found, recovered_key>>
    /\ pc' = "done"
    /\ UNCHANGED <<button, error, p, q, n, phi, e, d, session_key,
                   encrypted_key, p_found, q_found, d_eve, recovered_key,
                   prev>>

(* The places where a script run can be replaced by the next one: at an    *)
(* st.* call (before line 23, lines 35-137, lines 142-145, lines 150-208)  *)
(* or after the run ended, normally or by an exception.                    *)
RerunPoints == {"setup", "button", "show", "done", "crashed"}

(* A new script run: a click of the button (button' = TRUE) or a reload    *)
(* of the page (button' = FALSE).  The namespace of the old run is         *)
(* discarded; prev keeps what it held, as a history of the last run.       *)
Rerun ==
    /\ pc \in RerunPoints
    /\ prev' = [session_key |-> session_key, encrypted_key |-> encrypted_key,
                d_eve |-> d_eve, recovered_key |-> recovered_key]
    /\ button' \in BOOLEAN
    /\ pc' = "setup"
    /\ error' = ""
    /\ p' = Unbound /\ q' = Unbound /\ n' = Unbound /\ phi' = Unbound
    /\ e' = Unbound /\ d' = Unbound
    /\ session_key' = Unbound /\ encrypted_key' = Unbound
    /\ p_found' = Unbound /\ q_found' = Unbound
    /\ d_eve' = Unbound /\ recovered_key' = Unbound
    /\ metrics' = <<>>

(* Lines 23-27 and 29 with the script's literals. *)
Setup == RSASetup(17, 23, 3)

SessionKey == DrawSessionKey(20, 80)

Next ==
    \/ Setup
    \/ SessionKey
    \/ Encrypt
    \/ Button
    \/ Attack138
    \/ Attack139
    \/ Attack140
    \/ Show
    \/ Rerun

Spec == Init /\ [][Next]_vars

---------------------------------------------------------------------------
(* The key pipeline as a pure function of (p, q, e, m): one run with the   *)
(* trigger on, the literals of lines 23, 26 and 29 replaced by inputs      *)
(* drawn from bounded sets.                                                *)

IsPrime(x) == x > 1 /\ \A y \in 2..(x - 1) : x % y # 0

Primes == {x \in 2..MaxPrime : IsPrime(x)}

LawInit ==
    /\ pc = "setup"
    /\ button = TRUE
    /\ error = ""
    /\ p = Unbound /\ q = Unbound /\ n = Unbound /\ phi = Unbound
    /\ e = Unbound /\ d = Unbound
    /\ session_key = Unbound /\ encrypted_key = Unbound
    /\ p_found = Unbound /\ q_found = Unbound
    /\ d_eve = Unbound /\ recovered_key = Unbound
    /\ metrics = <<>>
    /\ prev = NoRun

LawSetup ==
    \E pp \in Primes, qq \in Primes, ee \in 1..MaxE :
        pp # qq /\ RSASetup(pp, qq, ee)

LawSessionKey == pc = "keygen" /\ DrawSessionKey(0, n - 1)

LawNext ==
    \/ LawSetup
    \/ LawSessionKey
    \/ Encrypt
    \/ Button
    \/ Attack138
    \/ Attack139
    \/ Attack140
    \/ Show

SpecLaw == LawInit /\ [][LawNext]_vars

(* Lines 30 and 140 alone, as pure functions of (base, exponent, modulus): *)
(* the state right before either line, with its three operands drawn from  *)
(* bounded sets.                                                           *)
PowInit ==
    /\ error = ""
    /\ p = Unbound /\ q = Unbound /\ phi = Unbound /\ d = Unbound
    /\ p_found = Unbound /\ q_found = Unbound
    /\ recovered_key = Unbound
    /\ metrics = <<>>
    /\ prev = NoRun
    /\ n \in 2..MaxMod
    /\ \/ /\ pc = "encrypt"
          /\ button = FALSE
          /\ e \in 0..MaxExp
          /\ session_key \in 0..(n - 1)
          /\ encrypted_key = Unbound
          /\ d_eve = Unbound
       \/ /\ pc = "attack140"
          /\ button = TRUE
          /\ e = Unbound
          /\ session_key = Unbound
          /\ encrypted_key \in 0..(n - 1)
          /\ d_eve \in 0..MaxExp

PowNext ==
    \/ Encrypt
    \/ Attack140

SpecPow == PowInit /\ [][PowNext]_vars

---------------------------------------------------------------------------
(* Reference definitions used by the properties. *)

RECURSIVE GCD(_, _)
GCD(x, y) == IF y = 0 THEN x ELSE GCD(y, x % y)

(* base multiplied k times, each product reduced mod m. *)
RECURSIVE NaivePow(_, _, _)
NaivePow(base, k, m) ==
    IF k = 0 THEN 1 % m ELSE (NaivePow(base, k - 1, m) * base) % m

Recovered == pc \in {"show", "done"} /\ button

---------------------------------------------------------------------------
(* C1: for all distinct primes p, q and every e coprime to phi (the        *)
(* script's 17, 23, 3 among them), the pipeline does not fail and          *)
(* decrypting the encryption of any m in [0, n) gives m back.              *)
RoundTripLaw ==
    /\ (pc # "setup" /\ GCD(e, phi) = 1) => error = ""
    /\ Recovered =>
          /\ session_key \in 0..(n - 1)
          /\ recovered_key = session_key

RoundTripWitness ==
    /\ pc = "done"
    /\ e > 1
    /\ session_key > 0
    /\ session_key % p = 0
    /\ recovered_key = session_key

ConcreteScenario ==
    /\ pc # "setup" => (n = 391 /\ phi = 352 /\ d = 235)
    /\ (session_key = 50 /\ encrypted_key # Unbound) =>
          encrypted_key = (50 * 50 * 50) % 391
    /\ (session_key = 50 /\ Recovered) =>
          (d_eve = 235 /\ recovered_key = 50)

ConcreteWitness ==
    /\ pc = "done"
    /\ session_key = 50
    /\ encrypted_key = 271
    /\ recovered_key = 50

(* C4: whenever gcd(e, phi) = 1 and phi > 1 the modular inverse is         *)
(* returned, lies strictly between 0 and phi and satisfies                 *)
(* (e * d) mod phi = 1; the same for the inverse computed at line 139.     *)
InverseCorrect ==
    (pc # "setup" /\ GCD(e, phi) = 1 /\ phi > 1) =>
        /\ d \in 1..(phi - 1)
        /\ (e * d) % phi = 1
        /\ pc \in {"attack140", "show", "done"} /\ button =>
              /\ d_eve \in 1..(phi - 1)
              /\ (e * d_eve) % phi = 1

InverseWitness ==
    /\ pc = "done"
    /\ e > 1 /\ d > 1
    /\ phi > e
    /\ d_eve = d
    /\ (e * d) % phi = 1

(* C5: the value pow returns at lines 30 and 140 equals naive repeated     *)
(* multiplication reduced mod n, for every base in [0, n), exponent k >= 0 *)
(* and modulus n > 1 within the bounds.                                    *)
PowMatchesNaive ==
    /\ pc = "button" => encrypted_key = NaivePow(session_key, e, n)
    /\ pc = "show" => recovered_key = NaivePow(encrypted_key, d_eve, n)

PowWitness ==
    /\ pc = "button"
    /\ e > 4
    /\ session_key > 1
    /\ encrypted_key > 1
    /\ encrypted_key # session_key

HeldForSession ==
    /\ (session_key # Unbound /\ prev.session_key # Unbound) =>
          session_key = prev.session_key
    /\ (encrypted_key # Unbound /\ prev.encrypted_key # Unbound) =>
          encrypted_key = prev.encrypted_key
    /\ (Recovered /\ prev.session_key # Unbound) =>
          recovered_key = prev.session_key

(* A step that is not the start of a new script run leaves every assigned  *)
(* name of the setup as it is.                                             *)
HeldStep ==
    pc' # "setup" =>
        /\ p # Unbound => p' = p
        /\ q # Unbound => q' = q
        /\ n # Unbound => n' = n
        /\ phi # Unbound => phi' = phi
        /\ e # Unbound => e' = e
        /\ d # Unbound => d' = d
        /\ session_key # Unbound => session_key' = session_key
        /\ encrypted_key # Unbound => encrypted_key' = encrypted_key

(* C7 as amended: within one script run nothing changes the session key,   *)
(* the cipher or the key material once assigned; every run derives the     *)
(* same p, q, n, phi, e, d; and what a trigger recovers is the session key *)
(* encrypted in the run that the trigger started.                          *)
HeldWithinRun ==
    /\ [](pc # "setup" =>
            (p = 17 /\ q = 23 /\ n = 391 /\ phi = 352 /\ e = 3 /\ d = 235))
    /\ [](Recovered => recovered_key = session_key)
    /\ [][HeldStep]_vars

FreshKeyWitness ==
    /\ pc = "done" /\ button
    /\ prev.session_key # Unbound
    /\ prev.session_key # session_key
    /\ recovered_key = session_key

(* C8: in a run with the trigger off neither d_eve nor recovered_key is    *)
(* computed or displayed; the handler runs only with the trigger on and    *)
(* only after that run's setup and encryption.                             *)
RecoveryGated ==
    /\ ~button =>
          /\ p_found = Unbound /\ q_found = Unbound
          /\ d_eve = Unbound /\ recovered_key = Unbound
          /\ metrics = <<>>
          /\ pc \notin {"attack138", "attack139", "attack140", "show"}
    /\ ( \/ pc \in {"attack138", "attack139", "attack140", "show"}
         \/ p_found # Unbound \/ d_eve # Unbound
         \/ recovered_key # Unbound \/ metrics # <<>> ) =>
          /\ button
          /\ d # Unbound
          /\ session_key # Unbound
          /\ encrypted_key # Unbound

RecoveryGatedWitness ==
    /\ pc = "done" /\ ~button
    /\ encrypted_key # Unbound
    /\ prev.recovered_key # Unbound
    /\ recovered_key = Unbound /\ metrics = <<>>

(* C9: the session key is in [20, 80], hence in [0, n) with n = 391; the   *)
(* cipher is in [0, n); a recovered key equals this run's session key and  *)
(* lies in [20, 80].                                                       *)
KeyInRange ==
    /\ session_key # Unbound =>
          /\ session_key \in 20..80
          /\ n = 391
          /\ 0 <= session_key /\ session_key < n
    /\ encrypted_key # Unbound => encrypted_key \in 0..(n - 1)
    /\ Recovered =>
          /\ recovered_key = session_key
          /\ recovered_key \in 20..80

KeyInRangeWitness ==
    /\ pc = "done"
    /\ session_key = 80
    /\ recovered_key = 80

(* C10: the reported factors are the setup primes, their product is n, and *)
(* the exponent derived from them equals the d of setup.                   *)
FactorsReused ==
    /\ p_found # Unbound =>
          /\ p_found = p /\ q_found = q
          /\ p_found * q_found = n
    /\ d_eve # Unbound => d_eve = d
    /\ metrics # <<>> => (metrics[1] = p /\ metrics[2] = q)

FactorsReusedWitness ==
    /\ pc = "done"
    /\ metrics = <<17, 23, session_key>>
    /\ d_eve = d
    /\ d_eve # Unbound

====
